---- MODULE Spec2Model ----
(***************************************************************************)
(* A model of the weather dashboard of src/app.py: the Dash callback       *)
(* update_output, its helpers degrees_to_direction, wind_direction_arrow   *)
(* and get_local_time, and the services it talks to (the geocoder, the     *)
(* forecast endpoint behind a requests_cache session mounted with a        *)
(* urllib3 retry policy, and the current-weather endpoint).                *)
(*                                                                         *)
(* Units.  Instants are whole seconds since the epoch (UTC).  Bearings are *)
(* tenths of a degree, so 22.5 degrees is 225 and 337.4 degrees is 3374;   *)
(* every sector boundary of the source is a whole number of tenths.        *)
(* Coordinates are hundredths of a degree.                                 *)
(***************************************************************************)
EXTENDS Integers, Sequences, FiniteSets, TLC

VARIABLES
    clock,      \* the current UTC instant (what dt.datetime.now reads)
    ticks,      \* how often time has been advanced (bounds the model)
    cache,      \* the ".cache" store of the CachedSession: key -> entry
    answered,   \* per key, the instant of the latest forecast request that succeeded
    outputs,    \* the nine Dash outputs as the browser shows them
    last,       \* what the latest run of update_output did
    loaded,     \* whether the page has been loaded
    inflight,   \* the callback requests the browser has posted, in order
    probe       \* one call of wind_direction_arrow on a bearing of its own

vars == <<clock, ticks, cache, answered, outputs, last, loaded, inflight, probe>>

----------------------------------------------------------------------------
(* Floating point: the one non-number a bearing can be.  A comparison with *)
(* NaN is false and NaN % 360 is NaN.                                      *)

NaN == 0 - 999999

Lt(a, b) == a # NaN /\ b # NaN /\ a < b
Gt(a, b) == a # NaN /\ b # NaN /\ a > b
Le(a, b) == a # NaN /\ b # NaN /\ a <= b
Ge(a, b) == a # NaN /\ b # NaN /\ a >= b
FMod(a, m) == IF a = NaN THEN NaN ELSE a % m

----------------------------------------------------------------------------
(* degrees_to_direction                                                    *)

InvalidDegreeMessage == "Invalid degree input. Degrees must be between 0 and 360."

CompassLabels ==
    {"North", "Northeast", "East", "Southeast", "South", "Southwest", "West", "Northwest"}

\* The chain of comparisons on the normalised bearing.
Sector(degrees) ==
    IF (Ge(degrees, 0) /\ Lt(degrees, 225)) \/ (Ge(degrees, 3375) /\ Le(degrees, 3600))
        THEN "North"
    ELSE IF Ge(degrees, 225) /\ Lt(degrees, 675) THEN "Northeast"
    ELSE IF Ge(degrees, 675) /\ Lt(degrees, 1125) THEN "East"
    ELSE IF Ge(degrees, 1125) /\ Lt(degrees, 1575) THEN "Southeast"
    ELSE IF Ge(degrees, 1575) /\ Lt(degrees, 2025) THEN "South"
    ELSE IF Ge(degrees, 2025) /\ Lt(degrees, 2475) THEN "Southwest"
    ELSE IF Ge(degrees, 2475) /\ Lt(degrees, 2925) THEN "West"
    ELSE IF Ge(degrees, 2925) /\ Lt(degrees, 3375) THEN "Northwest"
    ELSE "Unknown Direction"

\* Two variants of degrees_to_direction, each a slip the properties below must
\* detect: the North sector opening after 337.5 instead of at it, and the
\* normalisation done before the range check instead of after it.
degrees_to_direction_north_exclusive(degrees) ==
    IF Lt(degrees, 0) \/ Gt(degrees, 3600)
        THEN InvalidDegreeMessage
        ELSE IF FMod(degrees, 3600) = 3375 THEN "Northwest"
        ELSE Sector(FMod(degrees, 3600))

degrees_to_direction_normalise_first(degrees) ==
    LET d == FMod(degrees, 3600) IN
    IF Lt(d, 0) \/ Gt(d, 3600) THEN InvalidDegreeMessage ELSE Sector(d)

degrees_to_direction(degrees) ==
    IF Lt(degrees, 0) \/ Gt(degrees, 3600)
        THEN InvalidDegreeMessage
        ELSE Sector(FMod(degrees, 3600))

\* wind_direction_arrow: the arrow is drawn for the bearing as given and the
\* title carries whatever degrees_to_direction returned.  Neither function
\* has a raise statement.
wind_direction_arrow(direction_degrees) ==
    [arrow  |-> direction_degrees,
     title  |-> degrees_to_direction(direction_degrees),
     raised |-> "none"]

----------------------------------------------------------------------------
(* Time                                                                    *)

SecondsPerHour == 60 * 60
SecondsPerDay == 24 * SecondsPerHour

\* .dt.hour / .hour and .dt.date / .date() of an instant read in UTC.
HourOf(t) == (t % SecondsPerDay) \div SecondsPerHour
DateOf(t) == t \div SecondsPerDay

----------------------------------------------------------------------------
(* The geocoding service                                                   *)

None == "<None>"

Columbus ==
    [name |-> "Columbus", admin1 |-> "Ohio", country |-> "United States",
     latitude |-> 3996, longitude |-> 0 - 8300]

Kolkata ==
    [name |-> "Kolkata", admin1 |-> "West Bengal", country |-> "India",
     latitude |-> 2257, longitude |-> 8836]

\* The JSON the search endpoint answers with for count=1: at most one result,
\* and for a name it does not know either no "results" key or an empty list.
GeocodeResponse(location) ==
    CASE location \in {"Columbus", "columbus"} -> [has_results |-> TRUE, results |-> <<Columbus>>]
      [] location = "Kolkata" -> [has_results |-> TRUE, results |-> <<Kolkata>>]
      [] location = "Nowhere" -> [has_results |-> TRUE, results |-> <<>>]
      [] OTHER -> [has_results |-> FALSE, results |-> <<>>]

----------------------------------------------------------------------------
(* The forecast service                                                    *)

\* utc_offset_seconds of a place under timezone=auto.
UtcOffsetSeconds(latitude, longitude) ==
    IF latitude = Kolkata.latitude /\ longitude = Kolkata.longitude
        THEN 5 * SecondsPerHour + 30 * 60
        ELSE 0 - 5 * SecondsPerHour

\* A value of an hourly variable: which variable, where and for which instant.
Measured(variable, latitude, t) == [variable |-> variable, latitude |-> latitude, t |-> t]
NoValue == [variable |-> "", latitude |-> 0, t |-> 0 - 1]

\* The wind bearing the service reports, in tenths of a degree; a value the
\* weather model has not produced arrives as NaN.
WindDirectionAt(latitude, t) ==
    IF latitude = Kolkata.latitude /\ HourOf(t) = 18
        THEN NaN
        ELSE ((t \div (30 * 60)) * 475) % 3600

\* The response to forecast_days=1, timezone=auto asked at instant t: the
\* place's local day that holds t, from its local midnight, as UTC instants.
ForecastResponse(latitude, longitude, t) ==
    LET off == UtcOffsetSeconds(latitude, longitude)
        start == ((t + off) \div SecondsPerDay) * SecondsPerDay - off
    IN  [latitude |-> latitude, longitude |-> longitude,
         Time |-> start, TimeEnd |-> start + SecondsPerDay, Interval |-> SecondsPerHour,
         UtcOffsetSeconds |-> off,
         Elevation |-> IF latitude = Kolkata.latitude THEN 9 ELSE 235]

----------------------------------------------------------------------------
(* The session: requests_cache.CachedSession(".cache", expire_after=3600)  *)
(* mounted by retry(...) with urllib3's Retry(total=5, backoff_factor=0.2, *)
(* status_forcelist=(500, 502, 504)).                                      *)

expire_after == 3600

\* A variant: one retry more than the code asks for.
retries_one_more == 5 + 1

\* retries=5 becomes Retry(total=5): the retries allowed after the first attempt.
retries == 5
status_forcelist == {500, 502, 504}


\* The adapter's send loop.  answers[i] is the status the server gives the
\* i-th attempt; a status of the forcelist is retried while retries are left,
\* and raises RetryError when none is.
RECURSIVE urlopen(_, _, _)
urlopen(answers, left, sent) ==
    LET status == answers[sent + 1] IN
    IF status \in status_forcelist
        THEN IF left = 0
                THEN [status |-> status, raised |-> "RetryError", attempts |-> sent + 1]
                ELSE urlopen(answers, left - 1, sent + 1)
        ELSE [status |-> status, raised |-> "none", attempts |-> sent + 1]

\* The cache key of a forecast request: its parameters, of which only the
\* coordinates vary.
CacheKey(latitude, longitude) == <<latitude, longitude>>

\* A variant: an entry still served at the instant it expires.
is_expired_late(entry, t) == t > entry.created + expire_after

\* CachedResponse.is_expired at instant t.
is_expired(entry, t) == t >= entry.created + expire_after

\* openmeteo.weather_api(url, params) at instant t through the session: a
\* fresh cache entry answers without any attempt; otherwise the request is
\* sent, a 200 is stored under the key, and any other final status raises.
weather_api(latitude, longitude, t, store, answers) ==
    LET key == CacheKey(latitude, longitude) IN
    IF key \in DOMAIN store /\ ~is_expired(store[key], t)
        THEN [raised |-> "none", response |-> store[key].response,
              attempts |-> 0, from_cache |-> TRUE, store |-> store]
        ELSE
            LET sent == urlopen(answers, retries, 0)
                response == ForecastResponse(latitude, longitude, t)
            IN  IF sent.raised # "none"
                    THEN [raised |-> sent.raised, response |-> response,
                          attempts |-> sent.attempts, from_cache |-> FALSE, store |-> store]
                ELSE IF sent.status # 200
                    THEN [raised |-> "OpenMeteoRequestsError", response |-> response,
                          attempts |-> sent.attempts, from_cache |-> FALSE, store |-> store]
                ELSE [raised |-> "none", response |-> response,
                      attempts |-> sent.attempts, from_cache |-> FALSE,
                      store |-> [k \in DOMAIN store \cup {key} |->
                                    IF k = key THEN [created |-> t, response |-> response]
                                               ELSE store[k]]]

----------------------------------------------------------------------------
(* The hourly frame and the row of the current hour                        *)

\* pd.date_range(start, end, freq, inclusive="left") zipped with the five
\* variables in the order they were requested.
hourly_dataframe(response) ==
    LET n == (response.TimeEnd - response.Time + response.Interval - 1) \div response.Interval
    IN  [i \in 1..n |->
            LET t == response.Time + (i - 1) * response.Interval IN
            [date |-> t,
             temperature_2m |-> Measured("temperature_2m", response.latitude, t),
             relative_humidity_2m |-> Measured("relative_humidity_2m", response.latitude, t),
             precipitation_probability |-> Measured("precipitation_probability", response.latitude, t),
             wind_speed_10m |-> Measured("wind_speed_10m", response.latitude, t),
             wind_direction_10m |-> WindDirectionAt(response.latitude, t)]]

RowMatches(row, now) == HourOf(row.date) = HourOf(now) /\ DateOf(row.date) = DateOf(now)

\* hourly_dataframe.loc[(date.dt.hour == now.hour) & (date.dt.date == now.date())]
current_hour_data(frame, now) ==
    LET Test(row) == RowMatches(row, now) IN SelectSeq(frame, Test)

----------------------------------------------------------------------------
(* get_local_time                                                          *)

\* The current-weather response at instant t: its "time" is the place's local
\* wall clock at the start of the running quarter of an hour.  A response
\* without the keys is what the endpoint sends with an error.
CurrentWeatherResponse(latitude, longitude, t, shape) ==
    LET off == UtcOffsetSeconds(latitude, longitude) IN
    [has_keys |-> shape = "weather",
     time |-> ((t + off) \div (15 * 60)) * (15 * 60),
     utc_offset_seconds |-> off]

\* Returns the reported local time minus the offset, or, on a KeyError, a
\* message string.
get_local_time(latitude, longitude, t, shape) ==
    LET data == CurrentWeatherResponse(latitude, longitude, t, shape) IN
    IF data.has_keys
        THEN [is_str |-> FALSE, value |-> data.time - data.utc_offset_seconds]
        ELSE [is_str |-> TRUE, value |-> 0]

----------------------------------------------------------------------------
(* update_output                                                           *)

\* The layout's outputs before any callback has answered.
InitialOutputs ==
    [center |-> <<0, 0>>, position |-> <<0, 0>>, popup |-> <<>>,
     style |-> "hidden", humidity |-> NoValue, precip |-> NoValue,
     thermometer |-> NoValue,
     compass |-> [arrow |-> 0, title |-> ""],
     chart |-> [latitude |-> 0, start |-> 0, interval |-> 0, vline |-> 0]]

\* A variant of the guard below that lets the empty string through.
Falsy_none_only(location) == location = None

\* "not location"
Falsy(location) == location \in {None, ""}

\* What a run that stops before the forecast request has to report.
NoFetch ==
    [attempts |-> 0, from_cache |-> FALSE, reached_fetch |-> FALSE,
     key |-> <<0, 0>>, served_latitude |-> 0, served_time |-> 0 - 1, matches |-> 0 - 1,
     selected |-> 0 - 1, offset |-> 0, weather_calls |-> 0]

\* One run of the callback at instant t with the cache `store`, the forecast
\* server answering its attempts with `answers` and the current-weather
\* endpoint answering with `shape`.
\* The result holds the exception that leaves the function ("none": it
\* returned), the outputs it returned, the cache afterwards and what it did.
update_output(location, t, store, answers, shape) ==
    LET res == GeocodeResponse(location)
        Stop(raised, calls) ==
            [raised |-> raised, returned |-> InitialOutputs, store |-> store,
             geocode_calls |-> calls] @@ NoFetch
    IN
    IF Falsy(location) THEN Stop("PreventUpdate", 0)
    ELSE IF ~res.has_results THEN Stop("KeyError", 1)
    ELSE IF res.results = <<>> THEN Stop("IndexError", 1)
    ELSE
        LET place == res.results[1]
            lat == place.latitude
            lon == place.longitude
            now == t
            fetch == weather_api(lat, lon, t, store, answers)
            response == fetch.response
            frame == hourly_dataframe(response)
            current == current_hour_data(frame, now)
            row == current[1]
            compass == wind_direction_arrow(row.wind_direction_10m)
            local_time == get_local_time(lat, lon, t, shape)
            fetched ==
                [attempts |-> fetch.attempts, from_cache |-> fetch.from_cache,
                 reached_fetch |-> TRUE, key |-> CacheKey(lat, lon),
                 served_latitude |-> response.latitude,
                 served_time |-> response.Time, offset |-> response.UtcOffsetSeconds]
            popup_content ==
                << [label |-> "Location: ", text |-> <<place.name, place.admin1, place.country>>],
                   [label |-> "Coordinates: ", text |-> <<lat, lon>>],
                   [label |-> "Elevation: ", text |-> response.Elevation],
                   [label |-> "Temperature: ", text |-> row.temperature_2m],
                   [label |-> "Precip. Probability: ", text |-> row.precipitation_probability] >>
        IN
        IF fetch.raised # "none"
            THEN [raised |-> fetch.raised, returned |-> InitialOutputs, store |-> fetch.store,
                  geocode_calls |-> 1, matches |-> 0 - 1, selected |-> 0 - 1,
                  weather_calls |-> 0] @@ fetched
        ELSE IF current = <<>>
            THEN [raised |-> "IndexError", returned |-> InitialOutputs, store |-> fetch.store,
                  geocode_calls |-> 1, matches |-> 0, selected |-> 0 - 1,
                  weather_calls |-> 0] @@ fetched
        ELSE IF local_time.is_str
            THEN [raised |-> "AttributeError", returned |-> InitialOutputs, store |-> fetch.store,
                  geocode_calls |-> 1, matches |-> Len(current), selected |-> row.date,
                  weather_calls |-> 1] @@ fetched
        ELSE [raised |-> "none",
              returned |->
                [center |-> <<lat, lon>>, position |-> <<lat, lon>>,
                 popup |-> popup_content,
                 style |-> "visible",
                 humidity |-> row.relative_humidity_2m,
                 precip |-> row.precipitation_probability,
                 thermometer |-> row.temperature_2m,
                 compass |-> [arrow |-> compass.arrow, title |-> compass.title],
                 chart |-> [latitude |-> response.latitude, start |-> response.Time,
                            interval |-> response.Interval,
                            vline |-> local_time.value * 1000]],
              store |-> fetch.store,
              geocode_calls |-> 1, matches |-> Len(current), selected |-> row.date,
              weather_calls |-> 1] @@ fetched

----------------------------------------------------------------------------
(* The state machine                                                       *)

MaxTicks == 3
MaxCacheTicks == 2
MaxHourTicks == 1
MaxTransient == 6
MaxPosts == 2
MaxOver == 20

Instant(day, hour, minute) == day * SecondsPerDay + hour * SecondsPerHour + minute * 60

\* The statuses the forecast server gives successive attempts: k transient
\* failures, then `final`.
Answers(k, final) == [i \in 1..(MaxTransient + 1) |-> IF i <= k THEN 500 ELSE final]

Locations == {None, "", "Columbus", "columbus", "Kolkata", "Atlantis", "Nowhere"}
Shapes == {"weather", "error"}

\* prevent_initial_call=True
prevent_initial_call == TRUE

NoRun ==
    [trigger |-> "none", location |-> None, raised |-> "none", now |-> 0,
     changed |-> FALSE, transient |-> 0, prev_created |-> 0 - 1,
     prev_answered |-> 0 - 1, geocode_calls |-> 0] @@ NoFetch

\* What the run r did, as `last` keeps it: r's own report without the
\* outputs and the cache, with the instant it ran at, whether the outputs on
\* display changed, and the age of what the cache held for its key.
Report(r, trigger, location, k, changed) ==
    [trigger |-> trigger, location |-> location, raised |-> r.raised, now |-> clock,
     changed |-> changed, transient |-> k,
     prev_created |-> IF r.key \in DOMAIN cache THEN cache[r.key].created ELSE 0 - 1,
     prev_answered |-> IF r.key \in DOMAIN answered THEN answered[r.key] ELSE 0 - 1,
     geocode_calls |-> r.geocode_calls, attempts |-> r.attempts,
     from_cache |-> r.from_cache, reached_fetch |-> r.reached_fetch, key |-> r.key,
     served_latitude |-> r.served_latitude, served_time |-> r.served_time,
     matches |-> r.matches, selected |-> r.selected, offset |-> r.offset,
     weather_calls |-> r.weather_calls]

\* The forecast request of run r was answered (from the cache or the network).
Answered(r) == r.reached_fetch /\ r.matches >= 0

NoteAnswered(r) ==
    IF Answered(r)
        THEN [k \in DOMAIN answered \cup {r.key} |-> IF k = r.key THEN clock ELSE answered[k]]
        ELSE answered

\* Dash applies a callback's return value to the outputs; a callback that
\* raised (PreventUpdate included) changes none of them.
Applied(raised, returned, shown) == IF raised = "none" THEN returned ELSE shown

Init(clocks) ==
    /\ clock \in clocks
    /\ ticks = 0
    /\ cache = <<>>
    /\ answered = <<>>
    /\ outputs = InitialOutputs
    /\ last = NoRun
    /\ loaded = FALSE
    /\ inflight = <<>>
    /\ probe = [degrees |-> 0, called |-> FALSE, arrow |-> 0, title |-> "", raised |-> "none"]

\* Time passes.
Tick(d, limit) ==
    /\ ticks < limit
    /\ clock' = clock + d
    /\ ticks' = ticks + 1
    /\ UNCHANGED <<cache, answered, outputs, last, loaded, inflight, probe>>

\* The browser loads the page.  With prevent_initial_call the callback is not
\* run on the layout's initial value "".
PageLoad ==
    /\ ~loaded
    /\ loaded' = TRUE
    /\ IF prevent_initial_call
          THEN UNCHANGED <<cache, answered, outputs, last>>
          ELSE LET r == update_output("", clock, cache, Answers(0, 200), "weather")
                   shown == Applied(r.raised, r.returned, outputs)
               IN  /\ outputs' = shown
                   /\ cache' = r.store
                   /\ answered' = NoteAnswered(r)
                   /\ last' = Report(r, "initial", "", 0, shown # outputs)
    /\ UNCHANGED <<clock, ticks, inflight, probe>>

\* The user submits `location` and waits for the answer: the callback runs
\* and its return value is applied.
Submit(location, k, final, shape) ==
    /\ loaded
    /\ inflight = <<>>
    /\ LET r == update_output(location, clock, cache, Answers(k, final), shape)
           shown == Applied(r.raised, r.returned, outputs)
       IN  /\ outputs' = shown
           /\ cache' = r.store
           /\ answered' = NoteAnswered(r)
           /\ last' = Report(r, "input", location, k, shown # outputs)
    /\ UNCHANGED <<clock, ticks, loaded, inflight, probe>>

\* The dashboard used by one user at a time, every answer of the services
\* being one the code can meet: a known or an unknown place, a forecast
\* that is delivered or refused, a current-weather answer with or without
\* its keys.
SpecInit == Init({Instant(10, 18, 15)})

Next ==
    \/ PageLoad
    \/ Tick(30 * 60, MaxTicks)
    \/ \E location \in Locations, final \in {200, 400}, shape \in Shapes :
          Submit(location, 0, final, shape)

Spec == SpecInit /\ [][Next]_vars

\* The row of the current hour: two places, one west of Greenwich by whole
\* hours and one east of it by five hours and a half, in the afternoon and
\* around midnight of either place.
SelectInit == Init({Instant(10, 4, 45), Instant(10, 18, 15), Instant(10, 19, 37)})

SelectNext ==
    \/ PageLoad
    \/ Tick(30 * 60, MaxTicks)
    \/ \E location \in {"Columbus", "Kolkata"} :
          Submit(location, 0, 200, "weather")

SpecSelect == SelectInit /\ [][SelectNext]_vars

\* The response cache over time: requests for the same and for another
\* place, delivered or refused, just before and at the end of the hour.
CacheInit == Init({Instant(10, 19, 37)})

CacheNext ==
    \/ PageLoad
    \/ \E d \in {30 * 60 - 1, 30 * 60} : Tick(d, MaxCacheTicks)
    \/ \E location \in {"Columbus", "columbus", "Kolkata"}, final \in {200, 400} :
          Submit(location, 0, final, "weather")

SpecCache == CacheInit /\ [][CacheNext]_vars

\* The retries of the forecast request: the server fails no attempt, two,
\* all but the last allowed one, or one more than that.
TransientRuns == {0, 2, MaxTransient - 1, MaxTransient}

RetryNext ==
    \/ PageLoad
    \/ Tick(SecondsPerHour, MaxHourTicks)
    \/ \E location \in {"Columbus", "Kolkata"}, k \in TransientRuns, final \in {200, 400} :
          Submit(location, k, final, "weather")

SpecRetry == CacheInit /\ [][RetryNext]_vars

\* Two submissions in flight.  The development server handles each request
\* on a thread of its own and the browser applies each response as it
\* arrives; update_output tags neither the request nor its return value.
Post(location) ==
    /\ loaded
    /\ Len(inflight) < MaxPosts
    /\ inflight' = Append(inflight,
          [location |-> location, state |-> "posted", raised |-> "none",
           returned |-> InitialOutputs,
           overlaps |-> \E j \in 1..Len(inflight) : inflight[j].state # "delivered"])
    /\ UNCHANGED <<clock, ticks, cache, answered, outputs, last, loaded, probe>>

Handle(i, final, shape) ==
    /\ i \in 1..Len(inflight)
    /\ inflight[i].state = "posted"
    /\ LET r == update_output(inflight[i].location, clock, cache, Answers(0, final), shape)
       IN  /\ inflight' = [inflight EXCEPT ![i].state = "handled", ![i].raised = r.raised,
                                           ![i].returned = r.returned]
           /\ cache' = r.store
           /\ answered' = NoteAnswered(r)
           /\ last' = Report(r, "input", inflight[i].location, 0, FALSE)
    /\ UNCHANGED <<clock, ticks, outputs, loaded, probe>>

Deliver(i) ==
    /\ i \in 1..Len(inflight)
    /\ inflight[i].state = "handled"
    /\ outputs' = Applied(inflight[i].raised, inflight[i].returned, outputs)
    /\ inflight' = [inflight EXCEPT ![i].state = "delivered"]
    /\ UNCHANGED <<clock, ticks, cache, answered, last, loaded, probe>>

ConcNext ==
    \/ PageLoad
    \/ Tick(SecondsPerHour, MaxHourTicks)
    \/ \E location \in {"Columbus", "Kolkata"} : Post(location)
    \/ \E i \in 1..MaxPosts : Handle(i, 200, "weather")
    \/ \E i \in 1..MaxPosts : Deliver(i)

SpecConc == CacheInit /\ [][ConcNext]_vars

\* The classifier on its own: wind_direction_arrow called once on a bearing
\* from just below 0 to just above 360 degrees, or on NaN.
Bearings == ((0 - MaxOver)..(3600 + MaxOver)) \cup {NaN}

DirInit ==
    /\ clock = Instant(10, 19, 37)
    /\ ticks = 0
    /\ cache = <<>>
    /\ answered = <<>>
    /\ outputs = InitialOutputs
    /\ last = NoRun
    /\ loaded = FALSE
    /\ inflight = <<>>
    /\ \E d \in Bearings :
          probe = [degrees |-> d, called |-> FALSE, arrow |-> 0, title |-> "", raised |-> "none"]

Classify ==
    /\ ~probe.called
    /\ LET fig == wind_direction_arrow(probe.degrees)
       IN  probe' = [degrees |-> probe.degrees, called |-> TRUE, arrow |-> fig.arrow,
                     title |-> fig.title, raised |-> fig.raised]
    /\ UNCHANGED <<clock, ticks, cache, answered, outputs, last, loaded, inflight>>

SpecDir == DirInit /\ [][Classify]_vars

----------------------------------------------------------------------------
(* Properties                                                              *)

\* The sectors as the specification lists them, in tenths of a degree.
SectorTable ==
    [North |-> (3375..3599) \cup (0..224), Northeast |-> 225..674, East |-> 675..1124,
     Southeast |-> 1125..1574, South |-> 1575..2024, Southwest |-> 2025..2474,
     West |-> 2475..2924, Northwest |-> 2925..3374]

SectorName ==
    [North |-> "North", Northeast |-> "Northeast", East |-> "East",
     Southeast |-> "Southeast", South |-> "South", Southwest |-> "Southwest",
     West |-> "West", Northwest |-> "Northwest"]

InDomain(d) == d # NaN /\ d >= 0 /\ d <= 3600
OutOfRange(d) == d # NaN /\ (d < 0 \/ d > 3600)

\* C1: for every bearing d with 0 <= d <= 360, degrees_to_direction(d) is
\* one of the 8 compass labels, namely the label of the sector that holds
\* d mod 360 (North for [337.5,360) and [0,22.5), Northeast for [22.5,67.5),
\* and so on), and never "Unknown Direction".
C1_SectorOfBearing ==
    (probe.called /\ InDomain(probe.degrees)) =>
        /\ probe.title \in CompassLabels
        /\ \A s \in DOMAIN SectorTable :
              (probe.title = SectorName[s]) <=> ((probe.degrees % 3600) \in SectorTable[s])

C1_Witness ==
    /\ probe.called
    /\ probe.degrees = 3375
    /\ probe.title = "North"

LocalDateHour(t, off) == <<DateOf(t + off), HourOf(t + off)>>

\* C3: the record update_output selects as the current hour is the one
\* whose timestamp, shifted into location-local time by the UTC offset, has
\* the same calendar date and hour as the location's current local time,
\* for every UTC offset, those that are not whole hours included.
C3_SelectsLocalHour ==
    (last.trigger = "input" /\ last.selected >= 0) =>
        LocalDateHour(last.selected, last.offset) = LocalDateHour(last.now, last.offset)

\* C4: whenever zero records or more than one record match the current date
\* and hour, row selection fails with NoMatchError and nothing is displayed
\* from a record that is not the unique match.
C4_NoMatchError ==
    (last.reached_fetch /\ last.matches >= 0 /\ last.matches # 1) =>
        /\ last.raised = "NoMatchError"
        /\ ~last.changed

\* C5: when the geocoding service answers a non-empty query with zero
\* results (an empty or absent results list), location resolution fails
\* with NotFoundError and no forecast request is issued.
C5_NotFoundError ==
    (/\ last.trigger = "input"
     /\ last.location \notin {None, ""}
     /\ GeocodeResponse(last.location).results = <<>>) =>
        /\ last.raised = "NotFoundError"
        /\ ~last.reached_fetch
        /\ last.attempts = 0

NamedErrors ==
    {"NotFoundError", "FetchError", "TimeResolutionError", "NoMatchError", "InvalidDegreeError"}

BadBearing(run) ==
    /\ run.selected >= 0
    /\ ~InDomain(WindDirectionAt(run.served_latitude, run.selected))

Failure(run) ==
    \/ run.geocode_calls = 1 /\ ~run.reached_fetch     \* no geocoding match
    \/ run.reached_fetch /\ run.matches < 0            \* forecast fetch failure
    \/ run.matches = 0                                 \* no matching row
    \/ BadBearing(run)                                 \* out-of-domain bearing
    \/ run.raised = "AttributeError"                   \* current weather unavailable

\* C7: every failure in the request pipeline is recovered at the request
\* boundary as one of the named errors, and all nine outputs keep the values
\* they had before the submission.
C7_FailuresLeaveOutputs ==
    (last.trigger = "input" /\ Failure(last)) =>
        /\ last.raised \in NamedErrors
        /\ ~last.changed

C9_OwnEntry ==
    last.from_cache =>
        /\ last.attempts = 0
        /\ last.prev_created >= 0
        /\ last.served_latitude = last.key[1]

\* C9 as claimed: a forecast request whose parameters equal those of an
\* earlier successful request made less than 3600 seconds before is answered
\* from the cache without an outbound call; one made 3600 seconds or more
\* after the cached response was stored triggers a new outbound call; and
\* requests with different parameters never share an entry.
C9_FreshSinceLastRequest ==
    last.reached_fetch =>
        /\ (last.prev_answered >= 0 /\ last.now - last.prev_answered < 3600) =>
              last.from_cache
        /\ (last.prev_created >= 0 /\ last.now - last.prev_created >= 3600) =>
              ~last.from_cache /\ last.attempts >= 1
        /\ C9_OwnEntry

\* C9 as amended: a forecast request is answered from the cache, without an
\* outbound call, exactly when a response for the same parameters was
\* fetched and stored less than 3600 seconds before; a request answered from
\* the cache does not renew the entry, so 3600 seconds or more after the
\* response was stored a new outbound call is made; and requests with
\* different parameters never share an entry.
C9_FreshSinceStored ==
    last.reached_fetch =>
        /\ (last.prev_created >= 0 /\ last.now - last.prev_created < 3600) =>
              last.from_cache
        /\ (last.prev_created >= 0 /\ last.now - last.prev_created >= 3600) =>
              ~last.from_cache /\ last.attempts >= 1
        /\ last.prev_created < 0 => ~last.from_cache /\ last.attempts >= 1
        /\ C9_OwnEntry
        /\ \A key \in DOMAIN cache : cache[key].response.latitude = key[1]

C9_Witness ==
    /\ last.reached_fetch
    /\ last.from_cache
    /\ last.now - last.prev_created = 3599

\* C10: update_output invoked with an empty location ("" or None) issues no
\* outbound request and leaves all nine outputs unchanged, and it is never
\* run on the initial page load.
C10_EmptyLocationDoesNothing ==
    /\ last.trigger # "initial"
    /\ (last.trigger = "input" /\ last.location \in {None, ""}) =>
          /\ last.raised = "PreventUpdate"
          /\ last.geocode_calls = 0
          /\ last.attempts = 0
          /\ last.weather_calls = 0
          /\ ~last.reached_fetch
          /\ ~last.changed

C10_Witness ==
    /\ last.trigger = "input"
    /\ last.location = ""
    /\ outputs.style = "visible"
    /\ DOMAIN cache # {}

====
